---- MODULE Spec2Model ----
(***************************************************************************)
(* A model of the risk engine of backend.py: FinancialInstrument and its  *)
(* kinds (Stock, Bond, Swap), Portfolio, and the three VaR methods.       *)
(*                                                                         *)
(* A pandas Series is a function from dates (positive integers) to        *)
(* numbers; the empty Series is the function with the empty domain.       *)
(* Prices and quantities are integers.  Returns and the numbers derived   *)
(* from them are fixed-point numbers, in units of 1/Scale.  A float that  *)
(* may be NaN is a record [nan, v].  An attribute that may be None is a   *)
(* record [some, s].                                                      *)
(*                                                                         *)
(* last records the most recent call: its name, how it ended (returned,   *)
(* or the exception raised), the value returned, and for fetch_all_data   *)
(* what the provider answered for each ticker it was asked about.  added  *)
(* records, per ticker, the sum of the quantities passed to               *)
(* add_instrument.                                                        *)
(*                                                                         *)
(* app is the PortfolioApp of gui.py: the timeframe it holds, the handler *)
(* that ran last with the values the user entered, the Portfolio          *)
(* attribute the handler called, the value each parameter of that call    *)
(* was bound to, and the message box shown.                               *)
(***************************************************************************)
EXTENDS Integers, Sequences, FiniteSets, TLC

VARIABLES instruments, returns, history, last, added, calls, app

vars == <<instruments, returns, history, last, added, calls, app>>

\* ------------------------------------------------------------ bounds
\* The largest absolute quantity an instrument may accumulate.
MaxQuantity == 20

\* The number of operations called on the portfolio in one run.
MaxCalls == 5

\* Fixed-point unit of returns, weights and z-scores (three decimals).
Scale == 10 * 10 * 10

\* Fixed-point unit of the numbers passed to the VaR methods (two decimals):
\* a confidence level of 0.95 is 95, a horizon of 4 days is 4 * Cent.
Cent == 10 * 10

\* ------------------------------------------------------------ inputs
Tickers == {"A", "B"}

Kinds == {"Stock", "Bond", "Swap", "FinancialInstrument"}

\* The kinds of instrument callers create for a ticker.
KindsOf(t) == IF t = "A" THEN {"Stock"} ELSE Kinds

Quantities == {-20, 10, 20}

\* Confidence levels, in units of 1/Cent (percent).
Confidences == {10, 50, 90, 95}

\* Time horizons of 1 and 4 days, in units of 1/Cent.
TimeHorizons == {1 * Cent, 4 * Cent}

EmptySeries == <<>>

\* The price series the data provider can return for a ticker, keyed by
\* date.  All prices are positive.
ProviderSeries(t) ==
    IF t = "A"
    THEN { <<100, 102, 101, 103>>, (4 :> 100) }
    ELSE { <<50, 49, 51, 50>>, (2 :> 50) @@ (3 :> 51) @@ (5 :> 53) }

\* The series of an instrument that was fetched before it is added.
FetchedBefore(t) ==
    IF t = "A" THEN { <<100, 102, 101, 103>> } ELSE { <<50, 49, 51, 50>> }

\* ------------------------------------------------------------ values
None == [some |-> FALSE, s |-> EmptySeries]

Some(s) == [some |-> TRUE, s |-> s]

NaN == [nan |-> TRUE, v |-> 0]

Num(x) == [nan |-> FALSE, v |-> x]

Abs(x) == IF x < 0 THEN -x ELSE x

Max(S) == CHOOSE x \in S : \A y \in S : y <= x

Min(S) == CHOOSE x \in S : \A y \in S : x <= y

\* The dates of a series in increasing order.
RECURSIVE SortedDates(_)
SortedDates(D) ==
    IF D = {} THEN <<>>
    ELSE LET d == Min(D) IN <<d>> \o SortedDates(D \ {d})

RECURSIVE SumOver(_, _)
SumOver(S, f) ==
    IF S = {} THEN 0
    ELSE LET x == CHOOSE y \in S : TRUE IN f[x] + SumOver(S \ {x}, f)

\* Series.empty
IsEmpty(s) == DOMAIN s = {}

\* Series.iloc[-1] of a non-empty series
ILocLast(s) == s[Max(DOMAIN s)]

\* ------------------------------------------------------------ FinancialInstrument
\* FinancialInstrument.__init__
NewInstrument(t, k, q) ==
    [ticker |-> t, kind |-> k, quantity |-> q, data |-> None, returns |-> None]

\* FinancialInstrument.update_quantity
UpdateQuantity(inst, additional_quantity) ==
    [inst EXCEPT !.quantity = inst.quantity + additional_quantity]

\* Series.pct_change: the first entry is NaN, entry t is price[t]/price[t-1] - 1,
\* keyed by the later date.
PctChange(s) ==
    LET ds == SortedDates(DOMAIN s)
    IN  [d \in DOMAIN s |->
            LET i == CHOOSE j \in 1..Len(ds) : ds[j] = d
            IN  IF i = 1 THEN NaN
                ELSE Num((s[d] * Scale) \div s[ds[i - 1]] - Scale)]

\* A faulty dropna that keeps every entry, NaN as 0 (fillna(0)).
DropNaFilling(s) == [d \in DOMAIN s |-> s[d].v]

\* Series.dropna
DropNa(s) ==
    LET keep == {d \in DOMAIN s : ~s[d].nan}
    IN  [d \in keep |-> s[d].v]

\* FinancialInstrument.compute_returns
InstrumentComputeReturns(inst) ==
    IF inst.data.some
    THEN [inst EXCEPT !.returns = Some(DropNa(PctChange(inst.data.s)))]
    ELSE [inst EXCEPT !.returns = Some(EmptySeries)]

\* A faulty fetch_data whose except branch keeps the series held before, and
\* whose placeholders store an empty series.
FetchDataKeeping(inst, r) ==
    CASE inst.kind = "Stock" ->
            [raised |-> FALSE,
             inst |-> [inst EXCEPT !.data = IF r.ok THEN Some(r.s) ELSE @]]
      [] inst.kind \in {"Bond", "Swap"} ->
            [raised |-> FALSE, inst |-> [inst EXCEPT !.data = Some(EmptySeries)]]
      [] OTHER ->
            [raised |-> TRUE, inst |-> inst]

\* The outcomes of fetch_data on one instrument: r is what the provider did,
\* [ok |-> TRUE, s |-> series] or [ok |-> FALSE] for a provider that raised.
FetchData(inst, r) ==
    CASE inst.kind = "Stock" ->
            [raised |-> FALSE,
             inst |-> [inst EXCEPT !.data = IF r.ok THEN Some(r.s) ELSE Some(EmptySeries)]]
      [] inst.kind \in {"Bond", "Swap"} ->
            [raised |-> FALSE, inst |-> inst]
      [] OTHER ->
            [raised |-> TRUE, inst |-> inst]

\* What yf.download can do for a ticker: return a series, or raise.
Raised == [ok |-> FALSE, s |-> EmptySeries]

ProviderResponses(t) ==
    {[ok |-> TRUE, s |-> s] : s \in ProviderSeries(t)} \cup {Raised}

\* ------------------------------------------------------------ Portfolio
Position(insts, t) == CHOOSE i \in 1..Len(insts) : insts[i].ticker = t

Held(insts) == {insts[i].ticker : i \in 1..Len(insts)}

\* A faulty add_instrument that overwrites the entry of a ticker already held.
AddInstrumentOverwriting(insts, instrument) ==
    IF instrument.ticker \in Held(insts)
    THEN [insts EXCEPT ![Position(insts, instrument.ticker)] = instrument]
    ELSE Append(insts, instrument)

\* Portfolio.add_instrument
AddInstrumentTo(insts, instrument) ==
    IF instrument.ticker \in Held(insts)
    THEN [insts EXCEPT ![Position(insts, instrument.ticker)] =
              UpdateQuantity(@, instrument.quantity)]
    ELSE Append(insts, instrument)

\* The tickers fetch_all_data asks the provider about: the Stocks before the
\* first instrument whose fetch_data raises.
Asked(insts) ==
    {insts[i].ticker : i \in {j \in 1..Len(insts) :
        /\ insts[j].kind = "Stock"
        /\ \A k \in 1..j : ~FetchData(insts[k], Raised).raised}}

\* Portfolio.fetch_all_data: the loop stops at the first instrument whose
\* fetch_data raises; resp[t] is the provider's answer for ticker t.
FetchAllDataOf(insts, resp) ==
    LET out(i) == FetchData(insts[i],
                            IF insts[i].ticker \in DOMAIN resp
                            THEN resp[insts[i].ticker] ELSE Raised)
        stop == {i \in 1..Len(insts) : out(i).raised}
        upto == IF stop = {} THEN Len(insts) ELSE Min(stop) - 1
    IN  [raised |-> stop # {},
         insts |-> [i \in 1..Len(insts) |->
                        IF i <= upto THEN out(i).inst ELSE insts[i]]]

\* A faulty compute_portfolio_value that keeps only the dates every series
\* has (an inner join).
ComputePortfolioValueInner(insts) ==
    LET values == {i \in 1..Len(insts) : insts[i].data.some}
        all == UNION {DOMAIN insts[i].data.s : i \in values}
        dates == {d \in all : \A i \in values : d \in DOMAIN insts[i].data.s}
    IN  [d \in dates |->
            SumOver(values, [i \in values |-> insts[i].data.s[d] * insts[i].quantity])]

\* Portfolio.compute_portfolio_value: pd.concat(values, axis=1).sum(axis=1)
ComputePortfolioValueOf(insts) ==
    LET values == {i \in 1..Len(insts) : insts[i].data.some}
        dates == UNION {DOMAIN insts[i].data.s : i \in values}
    IN  [d \in dates |->
            SumOver({i \in values : d \in DOMAIN insts[i].data.s},
                    [i \in values |->
                        IF d \in DOMAIN insts[i].data.s
                        THEN insts[i].data.s[d] * insts[i].quantity ELSE 0])]

\* Portfolio.compute_returns, the instruments' part
ComputeReturnsOf(insts) ==
    [i \in 1..Len(insts) |-> InstrumentComputeReturns(insts[i])]

\* A faulty table whose columns come in the reverse order of the instruments.
ReturnTableReversed(insts) ==
    [some |-> TRUE,
     cols |-> [i \in 1..Len(insts) |->
                  [ticker |-> insts[Len(insts) + 1 - i].ticker,
                   s |-> insts[Len(insts) + 1 - i].returns.s]]]

\* Portfolio.compute_returns, the table: one column per instrument, in the
\* order of the instruments.
ReturnTable(insts) ==
    [some |-> TRUE,
     cols |-> [i \in 1..Len(insts) |->
                  [ticker |-> insts[i].ticker, s |-> insts[i].returns.s]]]

NoTable == [some |-> FALSE, cols |-> <<>>]

Result(op, outcome, value) ==
    [op |-> op, outcome |-> outcome, value |-> value, provided |-> <<>>]

\* ------------------------------------------------------------ numerics
\* floor(a * b / c) for c > 0, without forming a * b
MulDiv(a, b, c) == (a \div c) * b + ((a % c) * b) \div c

RECURSIVE SqrtBetween(_, _, _)
SqrtBetween(n, lo, hi) ==
    IF lo >= hi THEN lo
    ELSE LET mid == (lo + hi + 1) \div 2
         IN  IF mid * mid <= n THEN SqrtBetween(n, mid, hi)
             ELSE SqrtBetween(n, lo, mid - 1)

\* floor(sqrt(n)) for 0 <= n < 2^30
ISqrt(n) == SqrtBetween(n, 0, 32767)

\* np.sqrt(time_horizon), in units of 1/Scale; time_horizon in units of 1/Cent
SqrtHorizon(time_horizon) == ISqrt((time_horizon * Scale * Scale) \div Cent)

\* The values of a series in non-decreasing order (np.percentile sorts).
RECURSIVE SortedValues(_)
SortedValues(s) ==
    IF DOMAIN s = {} THEN <<>>
    ELSE LET d == CHOOSE x \in DOMAIN s : \A y \in DOMAIN s : s[x] <= s[y]
         IN  <<s[d]>> \o SortedValues([e \in DOMAIN s \ {d} |-> s[e]])

\* np.percentile(a, q) for 0 <= q <= 100: linear interpolation between the
\* order statistics around position q/100 * (n - 1).
Percentile(s, q) ==
    LET a == SortedValues(s)
        n == Len(a)
        pos == q * (n - 1)
        lo == pos \div 100
        frac == pos % 100
    IN  IF frac = 0 THEN a[lo + 1]
        ELSE a[lo + 1] + ((a[lo + 2] - a[lo + 1]) * frac) \div 100

\* The distribution function where the quantile function is meant: norm.cdf
\* of a probability in percent, in units of 1/Scale.
NormCdf(p) ==
    CASE p = 5 -> 520
      [] p = 10 -> 540
      [] p = 50 -> 691
      [] p = 90 -> 816
      [] p = 95 -> 829

\* scipy.stats.norm.ppf(p) for p in percent, in units of 1/Scale
NormPpf(p) ==
    CASE p = 5 -> -1645
      [] p = 10 -> -1282
      [] p = 50 -> 0
      [] p = 90 -> 1282
      [] p = 95 -> 1645

\* One entry of DataFrame.cov(): the sample covariance of two columns over
\* the dates both have, NaN with fewer than two such dates.  Units 1/Scale^2.
Cov(x, y) ==
    LET common == DOMAIN x \cap DOMAIN y
        n == Cardinality(common)
        mx == SumOver(common, x) \div n
        my == SumOver(common, y) \div n
    IN  IF n < 2 THEN NaN
        ELSE Num(SumOver(common, [d \in common |-> (x[d] - mx) * (y[d] - my)]) \div (n - 1))

\* DataFrame.cov() of the return table
CovarianceMatrix(table) ==
    [i \in 1..Len(table.cols) |->
        [j \in 1..Len(table.cols) |-> Cov(table.cols[i].s, table.cols[j].s)]]

HasNaN(m) == \E i \in DOMAIN m : \E j \in DOMAIN m[i] : m[i][j].nan

\* The weight vector of model_building_var and monte_carlo_var, one entry per
\* instrument in the order of the instruments: the entry's value is
\* num / den, and err is the error raised by instrument.data.iloc[-1].
WeightEntry(inst, portfolio_value) ==
    CASE ~inst.data.some ->
            [ticker |-> inst.ticker, err |-> "AttributeError", num |-> 0, den |-> portfolio_value]
      [] IsEmpty(inst.data.s) ->
            [ticker |-> inst.ticker, err |-> "IndexError", num |-> 0, den |-> portfolio_value]
      [] OTHER ->
            [ticker |-> inst.ticker, err |-> "none",
             num |-> ILocLast(inst.data.s) * inst.quantity, den |-> portfolio_value]

Weights(insts, portfolio_value) ==
    [i \in 1..Len(insts) |-> WeightEntry(insts[i], portfolio_value)]

\* The error the list comprehension building the weights ends with: that of
\* the first instrument whose entry raises.
WeightsError(w) ==
    LET bad == {i \in 1..Len(w) : w[i].err # "none"}
    IN  IF bad = {} THEN "none" ELSE w[Min(bad)].err

\* np.dot(weights.T, np.dot(covariance_matrix, weights)), in units of
\* 1/Scale^2; the weights are rounded to 1/Scale.
PortfolioVariance(cov, w) ==
    LET n == Len(w)
        wf == [i \in 1..n |-> (w[i].num * Scale) \div w[i].den]
        cw == [i \in 1..n |->
                  SumOver(1..n, [j \in 1..n |-> cov[i][j].v * wf[j]]) \div Scale]
    IN  IF HasNaN(cov) THEN NaN
        ELSE Num(SumOver(1..n, [i \in 1..n |-> MulDiv(wf[i], cw[i], Scale)]))

\* ------------------------------------------------------------ VaR methods
\* Each method is a record [insts, returns, history, result]: the portfolio
\* as the call leaves it, also when it raises, and what the call ended with.
Ended(insts, table, hist, op, outcome, value) ==
    [insts |-> insts, returns |-> table, history |-> hist,
     result |-> Result(op, outcome, value)]

\* A faulty loop body that clamps an instrument's VaR at zero.
InstrumentVarClamped(inst, time_horizon, percentile) ==
    LET percentile_return == Percentile(inst.returns.s, 100 - percentile)
        var_1day == ILocLast(inst.data.s) * inst.quantity * (0 - percentile_return)
    IN  Max({0, MulDiv(SqrtHorizon(time_horizon), var_1day, Scale)})

\* historical_var, the loop body: var_n_days of one instrument, in units of
\* 1/Scale.
InstrumentVar(inst, time_horizon, percentile) ==
    LET loss_percentile == 100 - percentile
        percentile_return == Percentile(inst.returns.s, loss_percentile)
        projected_value == ILocLast(inst.data.s) * (Scale + percentile_return) * inst.quantity
        current_value == ILocLast(inst.data.s) * Scale * inst.quantity
        var_1day == current_value - projected_value
    IN  MulDiv(SqrtHorizon(time_horizon), var_1day, Scale)

\* Portfolio.historical_var(time_horizon, percentile), both in units of
\* 1/Cent.  np.percentile raises ValueError for a percentile outside 0..100;
\* the loop reaches it at the first instrument, unless that one's returns are
\* empty.
HistoricalVar(insts, table, hist, time_horizon, percentile) ==
    LET history1 == ComputePortfolioValueOf(insts)
        insts1 == ComputeReturnsOf(insts)
        returns1 == ReturnTable(insts1)
        empty == {i \in 1..Len(insts1) : IsEmpty(insts1[i].returns.s)}
        loss_percentile == 100 - percentile
        end(outcome, value) ==
            Ended(insts1, returns1, history1, "historical_var", outcome, value)
    IN  CASE ~returns1.some \/ IsEmpty(history1) ->
                end("ValueError: no data", NaN)
          [] loss_percentile \notin 0..100 /\ 1 \notin empty ->
                end("ValueError: percentile", NaN)
          [] empty # {} ->
                end("ValueError: empty returns", NaN)
          [] OTHER ->
                end("returned",
                    Num(SumOver(1..Len(insts1),
                        [i \in 1..Len(insts1) |->
                            InstrumentVar(insts1[i], time_horizon, percentile)])))

\* Portfolio.model_building_var(confidence_level, time_horizon); the result
\* is in units of 1/Scale^2.
ModelBuildingVar(insts, table, hist, confidence_level, time_horizon) ==
    LET insts1 == ComputeReturnsOf(insts)
        returns1 == ReturnTable(insts1)
        covariance_matrix == CovarianceMatrix(returns1)
        history1 == ComputePortfolioValueOf(insts1)
        portfolio_value == ILocLast(history1)
        weights == Weights(insts1, portfolio_value)
        portfolio_variance == PortfolioVariance(covariance_matrix, weights)
        portfolio_volatility == ISqrt(portfolio_variance.v)
        z_score == NormPpf(100 - confidence_level)
        var_value == MulDiv(SqrtHorizon(time_horizon),
                            z_score * portfolio_volatility * portfolio_value, Scale)
        end(h, outcome, value) ==
            Ended(insts1, returns1, h, "model_building_var", outcome, value)
    IN  CASE ~returns1.some \/ IsEmpty(hist) ->
                end(hist, "ValueError: no data", NaN)
          [] IsEmpty(history1) ->
                end(history1, "IndexError", NaN)
          [] portfolio_value = 0 ->
                end(history1, "ValueError: zero value", NaN)
          [] WeightsError(weights) # "none" ->
                end(history1, WeightsError(weights), NaN)
          [] portfolio_variance.nan \/ portfolio_variance.v < 0 ->
                end(history1, "returned", NaN)
          [] OTHER ->
                end(history1, "returned", Num(Abs(var_value)))

\* The percentiles np.percentile may find among the simulated portfolio
\* returns, in units of 1/Scale: the draws are random.
SimulatedPercentiles == {-30, 20}

\* Numbers of simulations, in units of 1/Cent.
NumSimulations == {1000 * Cent}

\* Portfolio.monte_carlo_var(num_simulations, time_horizon, percentile), with
\* var_percentile the percentile of the draws.  np.random.multivariate_normal
\* raises TypeError for a size that is not a whole number.  With a NaN
\* covariance it raises LinAlgError or yields NaN, by its version:
\* linalg_raises says which.
MonteCarloVar(insts, table, hist, num_simulations, time_horizon, percentile, var_percentile, linalg_raises) ==
    LET insts1 == ComputeReturnsOf(insts)
        returns1 == ReturnTable(insts1)
        history1 == ComputePortfolioValueOf(insts1)
        current_value == ILocLast(history1)
        weights == Weights(insts1, current_value)
        covariance_matrix == CovarianceMatrix(returns1)
        var_projected_value == current_value * (Scale + var_percentile)
        var_loss == current_value * Scale - var_projected_value
        end(outcome, value) ==
            Ended(insts1, returns1, history1, "monte_carlo_var", outcome, value)
    IN  CASE IsEmpty(history1) ->
                end("IndexError", NaN)
          [] ~returns1.some ->
                end("ValueError: no data", NaN)
          [] WeightsError(weights) # "none" ->
                end(WeightsError(weights), NaN)
          [] num_simulations % Cent # 0 ->
                end("TypeError", NaN)
          [] HasNaN(covariance_matrix) /\ linalg_raises ->
                end("LinAlgError", NaN)
          [] HasNaN(covariance_matrix) \/ current_value = 0 ->
                end("returned", NaN)
          [] OTHER ->
                end("returned", Num(var_loss))

\* ------------------------------------------------------------ actions
Init ==
    /\ instruments = <<>>
    /\ returns = NoTable
    /\ history = EmptySeries
    /\ last = Result("__init__", "returned", Num(0))
    /\ added = <<>>
    /\ calls = 0
    /\ app = [start_date |-> "", end_date |-> "", action |-> "__init__",
              entered |-> <<>>, reached |-> "", bound |-> <<>>, shown |-> "none"]

Called ==
    /\ calls < MaxCalls
    /\ calls' = calls + 1

\* add_instrument(instrument); a Stock may have been fetched before.
AddInstrument ==
    \E t \in Tickers, q \in Quantities, fetched \in BOOLEAN :
        \E k \in KindsOf(t), s \in FetchedBefore(t) :
            LET fresh == NewInstrument(t, k, q)
                instrument == IF fetched /\ k = "Stock"
                              THEN FetchData(fresh, [ok |-> TRUE, s |-> s]).inst
                              ELSE fresh
                after == AddInstrumentTo(instruments, instrument)
            IN  /\ Called
                /\ \A i \in 1..Len(after) : Abs(after[i].quantity) <= MaxQuantity
                /\ instruments' = after
                /\ added' = IF t \in DOMAIN added
                            THEN [added EXCEPT ![t] = @ + q]
                            ELSE (t :> q) @@ added
                /\ last' = Result("add_instrument", "returned", Num(0))
                /\ UNCHANGED <<returns, history, app>>

FetchAllData ==
    \E resp \in [Asked(instruments) -> UNION {ProviderResponses(t) : t \in Tickers}] :
        /\ Called
        /\ \A t \in DOMAIN resp : resp[t] \in ProviderResponses(t)
        /\ LET out == FetchAllDataOf(instruments, resp)
           IN  /\ instruments' = out.insts
               /\ last' = [op |-> "fetch_all_data",
                           outcome |-> IF out.raised THEN "NotImplementedError"
                                       ELSE "returned",
                           value |-> Num(0), provided |-> resp]
        /\ UNCHANGED <<returns, history, added, app>>

ComputePortfolioValue ==
    /\ Called
    /\ history' = ComputePortfolioValueOf(instruments)
    /\ last' = Result("compute_portfolio_value", "returned", Num(0))
    /\ UNCHANGED <<instruments, returns, added, app>>

ComputeReturns ==
    /\ Called
    /\ instruments' = ComputeReturnsOf(instruments)
    /\ returns' = ReturnTable(instruments')
    /\ last' = Result("compute_returns", "returned", Num(0))
    /\ UNCHANGED <<history, added, app>>

Leave(out) ==
    /\ instruments' = out.insts
    /\ returns' = out.returns
    /\ history' = out.history
    /\ last' = out.result
    /\ UNCHANGED added

CallHistoricalVar ==
    \E time_horizon \in TimeHorizons, percentile \in Confidences :
        /\ Called
        /\ Leave(HistoricalVar(instruments, returns, history, time_horizon, percentile))
        /\ UNCHANGED app

CallModelBuildingVar ==
    \E confidence_level \in Confidences, time_horizon \in TimeHorizons :
        /\ Called
        /\ Leave(ModelBuildingVar(instruments, returns, history,
                                  confidence_level, time_horizon))
        /\ UNCHANGED app

CallMonteCarloVar ==
    \E num_simulations \in NumSimulations, time_horizon \in {Min(TimeHorizons)},
       percentile \in {Max(Confidences)}, var_percentile \in SimulatedPercentiles,
       linalg_raises \in BOOLEAN :
        /\ Called
        /\ Leave(MonteCarloVar(instruments, returns, history, num_simulations,
                               time_horizon, percentile, var_percentile, linalg_raises))
        /\ UNCHANGED app

Next ==
    \/ AddInstrument
    \/ FetchAllData
    \/ ComputePortfolioValue
    \/ ComputeReturns
    \/ CallHistoricalVar
    \/ CallModelBuildingVar
    \/ CallMonteCarloVar

Spec == Init /\ [][Next]_vars

\* ------------------------------------------------------------ PortfolioApp
\* What the user may type as a ticker and as a date; "" is an empty entry,
\* false in the tests of add_stock and fetch_data as the None of __init__ is.
TickerEntries == {"", "a", "B"}

DateEntries == {"", "2020-01-01"}

\* str.upper on the ticker entries
Upper(ticker) == IF ticker = "a" THEN "A" ELSE ticker

\* The methods of Portfolio.
PortfolioOperations ==
    {"add_instrument", "fetch_all_data", "compute_portfolio_value", "compute_returns",
     "get_returns", "get_history", "historical_var", "model_building_var",
     "monte_carlo_var"}

\* The parameters of the VaR methods after self, in the order of their def.
HistoricalVarParams == <<"time_horizon", "percentile">>

MonteCarloVarParams == <<"num_simulations", "time_horizon", "percentile">>

\* A call with positional arguments binds the k-th argument to the k-th
\* parameter.
Bind(params, args) ==
    [p \in {params[k] : k \in 1..Len(args)} |->
        args[CHOOSE k \in 1..Len(args) : params[k] = p]]

Handled(action, entered, reached, bound, shown) ==
    [app EXCEPT !.action = action, !.entered = entered, !.reached = reached,
                !.bound = bound, !.shown = shown]

NoCall(action, shown) == Handled(action, <<>>, "", <<>>, shown)

\* set_timeframe
SetTimeframe ==
    \E start_date \in DateEntries, end_date \in DateEntries :
        /\ Called
        /\ app' = [NoCall("set_timeframe", "info") EXCEPT !.start_date = start_date,
                                                         !.end_date = end_date]
        /\ UNCHANGED <<instruments, returns, history, last, added>>

\* add_stock
AddStock ==
    \E entry \in TickerEntries, quantity \in Quantities :
        LET ticker == Upper(entry)
            stock == NewInstrument(ticker, "Stock", quantity)
            after == AddInstrumentTo(instruments, stock)
        IN  /\ Called
            /\ IF ticker # "" /\ quantity > 0
               THEN /\ \A i \in 1..Len(after) : Abs(after[i].quantity) <= MaxQuantity
                    /\ instruments' = after
                    /\ added' = IF ticker \in DOMAIN added
                                THEN [added EXCEPT ![ticker] = @ + quantity]
                                ELSE (ticker :> quantity) @@ added
                    /\ last' = Result("add_instrument", "returned", Num(0))
                    /\ app' = Handled("add_stock", <<>>, "add_instrument", <<>>, "info")
               ELSE /\ app' = NoCall("add_stock", "error")
                    /\ UNCHANGED <<instruments, added, last>>
            /\ UNCHANGED <<returns, history>>

\* fetch_data: fetch_all_data, compute_portfolio_value and compute_returns
\* when a timeframe is set.
FetchDataClicked ==
    \E resp \in [Asked(instruments) -> UNION {ProviderResponses(t) : t \in Tickers}] :
        LET out == FetchAllDataOf(instruments, resp)
            insts1 == ComputeReturnsOf(out.insts)
        IN  /\ Called
            /\ \A t \in DOMAIN resp : resp[t] \in ProviderResponses(t)
            /\ IF app.start_date # "" /\ app.end_date # ""
               THEN IF out.raised
                    THEN /\ instruments' = out.insts
                         /\ last' = [op |-> "fetch_all_data", outcome |-> "NotImplementedError",
                                     value |-> Num(0), provided |-> resp]
                         /\ app' = Handled("fetch_data", <<>>, "fetch_all_data", <<>>, "none")
                         /\ UNCHANGED <<returns, history>>
                    ELSE /\ instruments' = insts1
                         /\ history' = ComputePortfolioValueOf(out.insts)
                         /\ returns' = ReturnTable(insts1)
                         /\ last' = Result("compute_returns", "returned", Num(0))
                         /\ app' = Handled("fetch_data", <<>>, "compute_returns", <<>>, "info")
               ELSE /\ app' = NoCall("fetch_data", "error")
                    /\ UNCHANGED <<instruments, returns, history, last>>
            /\ UNCHANGED added

\* The message box after a call: showinfo when it returned, none when it
\* raised.
Shown(result) == IF result.outcome = "returned" THEN "info" ELSE "none"

\* calculate_historical_var
CalculateHistoricalVar ==
    \E confidence_level \in Confidences, time_horizon \in TimeHorizons :
        LET entered == [confidence |-> confidence_level, time_horizon |-> time_horizon]
            bound == Bind(HistoricalVarParams, <<confidence_level, time_horizon>>)
            out == HistoricalVar(instruments, returns, history,
                                 bound["time_horizon"], bound["percentile"])
        IN  /\ Called
            /\ Leave(out)
            /\ app' = Handled("calculate_historical_var", entered, "historical_var",
                              bound, Shown(out.result))

\* calculate_monte_carlo_var
CalculateMonteCarloVar ==
    \E confidence_level \in Confidences, time_horizon \in TimeHorizons,
       num_simulations \in NumSimulations, var_percentile \in SimulatedPercentiles,
       linalg_raises \in BOOLEAN :
        LET entered == [confidence |-> confidence_level, time_horizon |-> time_horizon,
                        num_simulations |-> num_simulations]
            bound == Bind(MonteCarloVarParams,
                          <<confidence_level, time_horizon, num_simulations>>)
            out == MonteCarloVar(instruments, returns, history, bound["num_simulations"],
                                 bound["time_horizon"], bound["percentile"],
                                 var_percentile, linalg_raises)
        IN  /\ Called
            /\ Leave(out)
            /\ app' = Handled("calculate_monte_carlo_var", entered, "monte_carlo_var",
                              bound, Shown(out.result))

\* calculate_parametric_var: self.portfolio.parametric_var is looked up
\* before any argument is passed.
CalculateParametricVar ==
    \E confidence_level \in Confidences, time_horizon \in TimeHorizons :
        LET entered == [confidence |-> confidence_level, time_horizon |-> time_horizon]
        IN  /\ Called
            /\ "parametric_var" \notin PortfolioOperations
            /\ last' = Result("parametric_var", "AttributeError", NaN)
            /\ app' = Handled("calculate_parametric_var", entered, "parametric_var",
                              <<>>, "none")
            /\ UNCHANGED <<instruments, returns, history, added>>

AppNext ==
    \/ SetTimeframe
    \/ AddStock
    \/ FetchDataClicked
    \/ CalculateHistoricalVar
    \/ CalculateMonteCarloVar
    \/ CalculateParametricVar

AppSpec == Init /\ [][AppNext]_vars

\* ------------------------------------------------------------ vocabulary of the claims
VarOps == {"historical_var", "model_building_var", "monte_carlo_var"}

\* The 'no data' condition: either ValueError a VaR method raises for missing data.
DataUnavailable(outcome) ==
    outcome \in {"ValueError: no data", "ValueError: empty returns"}

\* The price series of an instrument, empty when never fetched.
Prices(inst) == IF inst.data.some THEN inst.data.s ELSE EmptySeries

NoPrices(inst) == IsEmpty(Prices(inst))

Instruments == {instruments[i] : i \in 1..Len(instruments)}

\* ------------------------------------------------------------ C1
\* C1: on a portfolio of at least one instrument, all with an empty or
\* never-fetched price series, every VaR method ends with the 'no data'
\* condition, whatever was called before.
C1_NoDataRaisesDataUnavailable ==
    (/\ last.op \in VarOps
     /\ Instruments # {}
     /\ \A inst \in Instruments : NoPrices(inst))
        => DataUnavailable(last.outcome)

\* ------------------------------------------------------------ C2
\* C2: when fetch_all_data has returned leaving some instrument without prices
\* and some other with prices, the VaR method called next ends with the
\* 'no data' condition.
C2_DeferredFailure ==
    [][(/\ last.op = "fetch_all_data"
        /\ last.outcome = "returned"
        /\ last'.op \in VarOps
        /\ \E inst \in Instruments : NoPrices(inst)
        /\ \E inst \in Instruments : ~NoPrices(inst))
           => DataUnavailable(last'.outcome)]_vars

\* ------------------------------------------------------------ C3
\* C3: on a portfolio whose instruments all hold at least two prices and whose
\* latest total value is not zero, model_building_var returns a number,
\* whether or not the value history was computed before.
C3_ModelBuildingVarRecomputes ==
    (/\ last.op = "model_building_var"
     /\ Instruments # {}
     /\ \A inst \in Instruments : Cardinality(DOMAIN Prices(inst)) >= 2
     /\ ILocLast(ComputePortfolioValueOf(instruments)) # 0)
        => last.outcome = "returned"

\* ------------------------------------------------------------ C4
\* C4: when every instrument has prices and the latest total value is zero,
\* model_building_var ends with the 'zero value' condition, whatever was
\* called before.
C4_ZeroValueRaisesDegenerateState ==
    (/\ last.op = "model_building_var"
     /\ Instruments # {}
     /\ \A inst \in Instruments : ~NoPrices(inst)
     /\ ILocLast(ComputePortfolioValueOf(instruments)) = 0)
        => last.outcome = "ValueError: zero value"

\* ------------------------------------------------------------ C5
\* Every ticker added is held once, with the sum of the quantities added.
OnePerTickerWithSummedQuantity ==
    /\ Held(instruments) = DOMAIN added
    /\ Len(instruments) = Cardinality(DOMAIN added)
    /\ \A inst \in Instruments : inst.quantity = added[inst.ticker]

\* A call of add_instrument leaves the data, the returns, the ticker and the
\* kind of every instrument held before as they were; a merge changes at
\* most the one quantity and stores nothing of the new instrument, an
\* insertion appends one entry.
AddKeepsStoredSeries ==
    (last'.op = "add_instrument" /\ calls' = calls + 1) =>
        /\ \A i \in 1..Len(instruments) :
              /\ instruments'[i].ticker = instruments[i].ticker
              /\ instruments'[i].kind = instruments[i].kind
              /\ instruments'[i].data = instruments[i].data
              /\ instruments'[i].returns = instruments[i].returns
        /\ \/ /\ Len(instruments') = Len(instruments)
              /\ \E i \in 1..Len(instruments) :
                    \A j \in 1..Len(instruments) \ {i} : instruments'[j] = instruments[j]
           \/ /\ Len(instruments') = Len(instruments) + 1
              /\ \A j \in 1..Len(instruments) : instruments'[j] = instruments[j]
              /\ instruments'[Len(instruments')].ticker \notin Held(instruments)
        /\ returns' = returns
        /\ history' = history

\* C5: after any sequence of adds the portfolio holds one instrument per
\* identifier, its quantity the sum of the quantities added under it; an add
\* of an identifier already held changes no stored price or return series
\* and no other instrument, and stores nothing of the new instrument's data.
C5_AddMergesQuantities ==
    [](OnePerTickerWithSummedQuantity) /\ [][AddKeepsStoredSeries]_vars

\* A merge has happened (-10 is the sum of 10 and -20, never added at once)
\* on an instrument that holds prices and returns.
C5_Witness ==
    /\ last.op = "add_instrument"
    /\ \E inst \in Instruments :
          /\ inst.quantity = -10
          /\ ~NoPrices(inst)
          /\ inst.returns.some /\ ~IsEmpty(inst.returns.s)

\* ------------------------------------------------------------ C6
\* The date before d in a series.
PrevDate(s, d) == Max({e \in DOMAIN s : e < d})

\* C6: after compute_returns (called directly or by a VaR method) an
\* instrument with n prices has n - 1 returns when n >= 2, keyed by the later
\* dates, entry t being price[t]/price[t-1] - 1 rounded down to 1/Scale, and
\* no returns when n < 2 or never fetched; compute_returns does not raise.
C6_ReturnSeriesLength ==
    last.op \in {"compute_returns"} \cup VarOps =>
        /\ last.op = "compute_returns" => last.outcome = "returned"
        /\ \A inst \in Instruments :
              LET p == Prices(inst)
                  n == Cardinality(DOMAIN p)
                  r == inst.returns.s
              IN  /\ inst.returns.some
                  /\ n < 2 => IsEmpty(r)
                  /\ n >= 2 =>
                        /\ Cardinality(DOMAIN r) = n - 1
                        /\ DOMAIN r = DOMAIN p \ {Min(DOMAIN p)}
                        /\ \A d \in DOMAIN r :
                              LET q == p[PrevDate(p, d)]
                                  err == (p[d] - q) * Scale - r[d] * q
                              IN  0 <= err /\ err < q

\* compute_returns has run on an instrument with four prices, one with a
\* single price and so no returns.
C6_Witness ==
    /\ last.op = "compute_returns"
    /\ \E inst \in Instruments :
          Cardinality(DOMAIN Prices(inst)) = 4 /\ Cardinality(DOMAIN inst.returns.s) = 3
    /\ \E inst \in Instruments :
          Cardinality(DOMAIN Prices(inst)) < 2 /\ inst.returns.some

\* ------------------------------------------------------------ C7
\* The total of price * quantity on date d over the instruments priced on d.
RECURSIVE ValueOn(_, _)
ValueOn(insts, d) ==
    IF insts = <<>> THEN 0
    ELSE LET p == Prices(Head(insts))
         IN  (IF d \in DOMAIN p THEN p[d] * Head(insts).quantity ELSE 0)
                 + ValueOn(Tail(insts), d)

\* A with quantity 10 and prices 100, 102, 101, 103; B with quantity 20 and
\* prices 50, 49, 51, 50 on the same dates.
TwoInstrumentExample ==
    /\ Len(instruments) = 2
    /\ \E a, b \in Instruments :
          /\ a.ticker = "A" /\ a.quantity = 10 /\ Prices(a) = <<100, 102, 101, 103>>
          /\ b.ticker = "B" /\ b.quantity = 20 /\ Prices(b) = <<50, 49, 51, 50>>

\* C7: the value history compute_portfolio_value leaves has the union of the
\* instruments' dates and on each date the sum of price * quantity over the
\* instruments priced on it; it is empty when no instrument has data; for
\* the two-instrument example it is 2000, 2000, 2030, 2030.
C7_ValueHistory ==
    last.op \in {"compute_portfolio_value", "historical_var"} =>
        /\ DOMAIN history = UNION {DOMAIN Prices(inst) : inst \in Instruments}
        /\ \A d \in DOMAIN history : history[d] = ValueOn(instruments, d)
        /\ (\A inst \in Instruments : NoPrices(inst)) => IsEmpty(history)
        /\ TwoInstrumentExample => history = <<2000, 2000, 2030, 2030>>

C7_Witness ==
    /\ last.op = "compute_portfolio_value"
    /\ TwoInstrumentExample
    /\ history = <<2000, 2000, 2030, 2030>>

\* ------------------------------------------------------------ C8
\* Every Stock asked about holds what the provider answered: the series
\* returned, or the empty series when the provider raised.
StocksHoldAnswers ==
    \A inst \in Instruments :
        (inst.kind = "Stock" /\ inst.ticker \in DOMAIN last.provided) =>
            LET r == last.provided[inst.ticker]
            IN  /\ inst.data.some
                /\ r.ok => inst.data.s = r.s
                /\ ~r.ok => IsEmpty(inst.data.s)

BaseKindHeld == \E inst \in Instruments : inst.kind = "FinancialInstrument"

Unfetchable == {"Bond", "Swap", "FinancialInstrument"}

\* C9 as stated: fetching a Bond, a Swap or a base instrument is a no-op that
\* leaves its price series empty and raises nothing.
C9_UnsupportedFetchIsNoOp ==
    (last.op = "fetch_all_data" /\ \E inst \in Instruments : inst.kind \in Unfetchable) =>
        /\ last.outcome = "returned"
        /\ \A inst \in Instruments : inst.kind \in Unfetchable => NoPrices(inst)

\* C9 as amended: fetching a Bond or a Swap is a no-op that leaves its data
\* unset and raises nothing; fetching a base instrument leaves its data
\* unset too but raises NotImplementedError.
C9_PlaceholderFetchIsNoOp ==
    (last.op = "fetch_all_data" /\ \E inst \in Instruments : inst.kind \in Unfetchable) =>
        /\ \A inst \in Instruments : inst.kind \in Unfetchable => ~inst.data.some
        /\ (\A inst \in Instruments : inst.kind \in {"Stock", "Bond", "Swap"})
              => last.outcome = "returned"
        /\ BaseKindHeld => last.outcome = "NotImplementedError"

\* fetch_all_data has returned on a portfolio holding a fetched Stock and a
\* Swap.
C9_Witness ==
    /\ last.op = "fetch_all_data"
    /\ last.outcome = "returned"
    /\ \E inst \in Instruments : inst.kind = "Swap" /\ ~inst.data.some
    /\ \E inst \in Instruments : inst.kind = "Stock" /\ ~NoPrices(inst)

\* ------------------------------------------------------------ C10
\* What the two methods would return on the portfolio as it is.
HistoricalVarNow(time_horizon, percentile) ==
    HistoricalVar(instruments, returns, history, time_horizon, percentile).result

ModelBuildingVarNow(confidence_level, time_horizon) ==
    ModelBuildingVar(instruments, returns, history, confidence_level, time_horizon).result

Returns(result) == result.outcome = "returned" /\ ~result.value.nan

AfterVarCall == last.op \in {"historical_var", "model_building_var"}

\* C10 as stated: with the data, the quantities and the horizon fixed, the
\* magnitude of historical_var and of model_building_var does not decrease
\* when the confidence level grows, for every portfolio and every pair of
\* confidence levels.
C10_MagnitudeMonotoneInConfidence ==
    AfterVarCall =>
        \A h \in TimeHorizons, c1, c2 \in Confidences :
            c1 <= c2 =>
                /\ Returns(HistoricalVarNow(h, c1)) =>
                      Abs(HistoricalVarNow(h, c2).value.v) >= Abs(HistoricalVarNow(h, c1).value.v)
                /\ Returns(ModelBuildingVarNow(c1, h)) =>
                      Abs(ModelBuildingVarNow(c2, h).value.v)
                          >= Abs(ModelBuildingVarNow(c1, h).value.v)

\* All quantities are of one sign, and at confidence c every instrument's
\* percentile return is not positive.
LossesAt(c) ==
    /\ \/ \A inst \in Instruments : inst.quantity >= 0
       \/ \A inst \in Instruments : inst.quantity <= 0
    /\ \A inst \in Instruments : Percentile(inst.returns.s, 100 - c) <= 0

\* C10 as amended: the magnitude of model_building_var does not decrease
\* from c1 to c2 when 0.5 <= c1 <= c2; that of historical_var does not
\* decrease from c1 to c2 when c1 <= c2, the quantities are of one sign and
\* no instrument's percentile return at c1 is positive.
C10_MonotoneOnLosses ==
    AfterVarCall =>
        \A h \in TimeHorizons, c1, c2 \in Confidences :
            c1 <= c2 =>
                /\ (Returns(HistoricalVarNow(h, c1)) /\ LossesAt(c1)) =>
                      Abs(HistoricalVarNow(h, c2).value.v) >= Abs(HistoricalVarNow(h, c1).value.v)
                /\ (Returns(ModelBuildingVarNow(c1, h)) /\ c1 >= 50) =>
                      ModelBuildingVarNow(c2, h).value.v >= ModelBuildingVarNow(c1, h).value.v

\* A VaR method has returned on a portfolio where both methods return and
\* both grow strictly between two confidence levels the amended claim covers.
C10_Witness ==
    /\ AfterVarCall
    /\ Returns(last)
    /\ \E h \in TimeHorizons, c1, c2 \in Confidences :
          /\ 50 <= c1 /\ c1 < c2
          /\ Returns(HistoricalVarNow(h, c1)) /\ LossesAt(c1)
          /\ Abs(HistoricalVarNow(h, c2).value.v) > Abs(HistoricalVarNow(h, c1).value.v)
          /\ Returns(ModelBuildingVarNow(c1, h))
          /\ ModelBuildingVarNow(c2, h).value.v > ModelBuildingVarNow(c1, h).value.v

\* ------------------------------------------------------------ C11
\* historical_var on the portfolio holding only the instrument inst.
SingleInstrumentVar(inst, time_horizon, percentile) ==
    HistoricalVar(<<inst>>, NoTable, EmptySeries, time_horizon, percentile).result

\* last_price * quantity * (-p_i) * sqrt(time_horizon), p_i the percentile of
\* the instrument's own returns.
OwnTerm(inst, time_horizon, percentile) ==
    MulDiv(SqrtHorizon(time_horizon),
           ILocLast(inst.data.s) * inst.quantity
               * (0 - Percentile(inst.returns.s, 100 - percentile)),
           Scale)

HistoricalVarReturned ==
    /\ last.op = "historical_var"
    /\ last.outcome = "returned"

TableBuilt ==
    /\ last.op \in {"compute_returns", "model_building_var", "monte_carlo_var"}
    /\ returns.some

\* The weight vector model_building_var and monte_carlo_var build on the
\* portfolio as it is; the divisor has no part in the order of the entries.
WeightsNow == Weights(instruments, 1)

\* C12: once compute_returns has run on the instruments held (by itself or as
\* the first step of model_building_var or monte_carlo_var), position k of
\* the weight vector, column k of the return table and row and column k of
\* the covariance matrix belong to the same instrument.
C12_WeightsAlignedWithColumns ==
    TableBuilt =>
        LET n == Len(instruments)
            cov == CovarianceMatrix(returns)
        IN  /\ Len(WeightsNow) = n
            /\ Len(returns.cols) = n
            /\ Len(cov) = n
            /\ \A k \in 1..n :
                  /\ WeightsNow[k].ticker = returns.cols[k].ticker
                  /\ returns.cols[k].s = instruments[Position(instruments, WeightsNow[k].ticker)].returns.s
                  /\ Len(cov[k]) = n
                  /\ \A j \in 1..n :
                        cov[k][j] =
                            Cov(instruments[Position(instruments, WeightsNow[k].ticker)].returns.s,
                                instruments[Position(instruments, WeightsNow[j].ticker)].returns.s)

\* model_building_var has returned a number on a portfolio to which B was
\* added first, then A, and then B again (its quantity is a merged one).
C12_Witness ==
    /\ last.op = "model_building_var"
    /\ Returns(last)
    /\ Len(instruments) = 2
    /\ instruments[1].ticker = "B"
    /\ instruments[1].quantity \notin Quantities
    /\ instruments[2].ticker = "A"
    /\ returns.cols[1].s # returns.cols[2].s

\* ------------------------------------------------------------ C13
\* model_building_var or monte_carlo_var has ended past the line that
\* computes the weights.
WeightsComputed ==
    /\ last.op \in {"model_building_var", "monte_carlo_var"}
    /\ last.outcome \in {"returned", "LinAlgError"}

\* C13: whenever model_building_var or monte_carlo_var has computed the
\* weights, the weights sum to 1: the sum over the instruments of
\* last_price * quantity equals the last value of the value history, also
\* when the instruments' price series end on different dates.
C13_WeightsSumToOne ==
    WeightsComputed =>
        LET n == Len(instruments)
            portfolio_value == ILocLast(history)
            weights == Weights(instruments, portfolio_value)
        IN  SumOver(1..n, [i \in 1..n |-> weights[i].num]) = portfolio_value

\* ------------------------------------------------------------ C14
\* The Portfolio operation each VaR handler names.
Named(action) ==
    CASE action = "calculate_historical_var" -> "historical_var"
      [] action = "calculate_monte_carlo_var" -> "monte_carlo_var"
      [] action = "calculate_parametric_var" -> "model_building_var"

\* What a parameter of a VaR method means among the values the user enters.
Meaning(param) ==
    IF param \in {"percentile", "confidence_level"} THEN "confidence" ELSE param

VarHandlers ==
    {"calculate_historical_var", "calculate_monte_carlo_var", "calculate_parametric_var"}

\* C14: each VaR handler of the presentation layer calls the Portfolio
\* operation it names, an operation that exists, with every entered value
\* bound to the parameter of the same meaning.
C14_HandlersBindByMeaning ==
    app.action \in VarHandlers =>
        /\ app.reached = Named(app.action)
        /\ app.reached \in PortfolioOperations
        /\ {Meaning(p) : p \in DOMAIN app.bound} = DOMAIN app.entered
        /\ \A p \in DOMAIN app.bound : app.bound[p] = app.entered[Meaning(p)]
====
